---- MODULE Spec2Model ----
(***************************************************************************)
(* The printer of xmlem (src/display.rs): the recursive renderer of a      *)
(* Document arena to a fallible sink, and the entity escaping it uses.     *)
(*                                                                         *)
(* A string is a sequence of Unicode code points.  The sink is the         *)
(* sequence of code points written so far.  The recursion of               *)
(* Print::print is an explicit stack of call frames; every write!() of     *)
(* the source is one step that either succeeds or fails part-way.          *)
(***************************************************************************)
EXTENDS Integers, Sequences, FiniteSets, TLC

VARIABLES
    doc,        \* the Document being rendered (immutable during a render)
    config,     \* the Config of the render
    stack,      \* call frames of Print::print, innermost first
    ret,        \* io::Result of the call that returned last: "none", "Ok", "Err"
    status,     \* "running", "Ok", "Err" (io::Error returned), "panic" (unwound)
    sink,       \* the code points the sink has accepted
    log,        \* one record per write!() issued, in order
    fallible,   \* whether the sink is one whose writes can fail
    esc_input,  \* process_entities: the input string
    esc_mode,   \* process_entities: the EntityMode
    esc_output, \* process_entities: the returned string
    esc_done    \* process_entities has been applied

vars == <<doc, config, stack, ret, status, sink, log, fallible,
          esc_input, esc_mode, esc_output, esc_done>>

printer_vars == <<doc, config, stack, ret, status, sink, log, fallible>>
esc_vars == <<esc_input, esc_mode, esc_output, esc_done>>

----------------------------------------------------------------------------
(* Bounds of the model *)

\* longest input string given to process_entities on its own
MaxLen == 2
\* longest content of the Text node in the text-rendering documents
MaxTextLen == 3
\* largest Config.indent
MaxIndent == 2

----------------------------------------------------------------------------
(* Strings *)

\* the code point of a character written as a one-character string
CodeOf(c) ==
    CASE c = " " -> 32  [] c = "!" -> 33  [] c = "\"" -> 34 [] c = "#" -> 35
      [] c = "&" -> 38  [] c = "'" -> 39  [] c = "-" -> 45  [] c = "." -> 46
      [] c = "/" -> 47  [] c = "0" -> 48  [] c = "1" -> 49  [] c = "2" -> 50
      [] c = ";" -> 59  [] c = "<" -> 60  [] c = "=" -> 61  [] c = ">" -> 62
      [] c = "?" -> 63  [] c = "A" -> 65  [] c = "C" -> 67  [] c = "D" -> 68
      [] c = "E" -> 69  [] c = "O" -> 79  [] c = "P" -> 80  [] c = "T" -> 84
      [] c = "Y" -> 89  [] c = "[" -> 91  [] c = "]" -> 93  [] c = "a" -> 97
      [] c = "b" -> 98  [] c = "c" -> 99  [] c = "d" -> 100 [] c = "e" -> 101
      [] c = "g" -> 103 [] c = "h" -> 104 [] c = "i" -> 105 [] c = "k" -> 107
      [] c = "l" -> 108 [] c = "m" -> 109 [] c = "n" -> 110 [] c = "o" -> 111
      [] c = "p" -> 112 [] c = "q" -> 113 [] c = "r" -> 114 [] c = "s" -> 115
      [] c = "t" -> 116 [] c = "u" -> 117 [] c = "v" -> 118 [] c = "w" -> 119
      [] c = "x" -> 120 [] c = "\t" -> 9  [] c = "\n" -> 10 [] c = "\r" -> 13
      [] c = "3" -> 51  [] c = "4" -> 52  [] c = "5" -> 53  [] c = "6" -> 54
      [] c = "7" -> 55  [] c = "8" -> 56  [] c = "9" -> 57  [] c = "B" -> 66
      [] c = "F" -> 70

\* the string whose characters are the one-character strings of t
Str(t) == [i \in 1..Len(t) |-> CodeOf(t[i])]

RECURSIVE Concat(_)
\* the concatenation of a sequence of strings
Concat(ss) == IF ss = <<>> THEN <<>> ELSE Head(ss) \o Concat(Tail(ss))

\* all strings over alphabet A of length at most n
Strings(A, n) == UNION {[1..k -> A] : k \in 0..n}

\* str::len of one char: its UTF-8 encoded length in bytes
Utf8Len(ch) ==
    IF ch < 128 THEN 1 ELSE IF ch < 2048 THEN 2 ELSE IF ch < 65536 THEN 3 ELSE 4

RECURSIVE StrLen(_)
\* str::len: the length in bytes
StrLen(s) == IF s = <<>> THEN 0 ELSE Utf8Len(Head(s)) + StrLen(Tail(s))

\* "{:>indent$}" applied to "": n spaces
Spaces(n) == [i \in 1..n |-> 32]

\* writeln!(f): a line feed
Newline == <<10>>

\* char::is_ascii_control: U+0000..U+001F and U+007F
is_ascii_control(ch) == ch < 32 \/ ch = 127

\* char::is_whitespace (the Unicode White_Space property), used by str::trim
is_whitespace(ch) ==
    \/ ch \in 9..13
    \/ ch \in {32, 133, 160, 5760, 8232, 8233, 8239, 8287, 12288}
    \/ ch \in 8192..8202

RECURSIVE trim_start(_)
trim_start(s) ==
    IF s # <<>> /\ is_whitespace(Head(s)) THEN trim_start(Tail(s)) ELSE s

RECURSIVE trim_end(_)
trim_end(s) ==
    IF s # <<>> /\ is_whitespace(s[Len(s)])
    THEN trim_end(SubSeq(s, 1, Len(s) - 1))
    ELSE s

\* str::trim
trim(s) == trim_end(trim_start(s))

----------------------------------------------------------------------------
(* Entity escaping: process_entities *)

\* one upper-case hexadecimal digit
HexDigit(d) == IF d < 10 THEN 48 + d ELSE 55 + d

RECURSIVE HexDigits(_)
\* the upper-case hexadecimal digits of n, without padding
HexDigits(n) ==
    IF n < 16 THEN <<HexDigit(n)>>
    ELSE Append(HexDigits(n \div 16), HexDigit(n % 16))

\* a variant that writes the digits in lower case
HexEntityLower(ch) ==
    LET lower(d)  == IF d >= 65 THEN d + 32 ELSE d
        digits    == [i \in 1..Len(HexDigits(ch)) |-> lower(HexDigits(ch)[i])]
        pad       == IF Len(digits) < 4 THEN [i \in 1..(4 - Len(digits)) |-> 48]
                     ELSE <<>>
    IN  Str(<<"&", "#", "x">>) \o pad \o digits \o Str(<<";">>)

\* format!("&#x{:>04X};", ch as u32): the 0 flag pads with zeros to width 4
HexEntity(ch) ==
    LET digits == HexDigits(ch)
        pad    == IF Len(digits) < 4 THEN [i \in 1..(4 - Len(digits)) |-> 48]
                  ELSE <<>>
    IN  Str(<<"&", "#", "x">>) \o pad \o digits \o Str(<<";">>)

Reserved == {CodeOf("<"), CodeOf(">"), CodeOf("'"), CodeOf("\""), CodeOf("&")}

\* a variant whose Standard arm for '>' is missing
entity_no_gt(mode, ch) ==
    CASE mode = "Standard" /\ ch = CodeOf("&")  -> Str(<<"&", "a", "m", "p", ";">>)
      [] mode = "Standard" /\ ch = CodeOf("'")  -> Str(<<"&", "a", "p", "o", "s", ";">>)
      [] mode = "Standard" /\ ch = CodeOf("\"") -> Str(<<"&", "q", "u", "o", "t", ";">>)
      [] mode = "Standard" /\ ch = CodeOf("<")  -> Str(<<"&", "l", "t", ";">>)
      [] mode = "Hex" /\ ch \in Reserved        -> HexEntity(ch)
      [] OTHER -> IF is_ascii_control(ch) THEN HexEntity(ch) ELSE <<ch>>

\* the match of process_entities: what one char contributes to the output
entity(mode, ch) ==
    CASE mode = "Standard" /\ ch = CodeOf("&")  -> Str(<<"&", "a", "m", "p", ";">>)
      [] mode = "Standard" /\ ch = CodeOf("'")  -> Str(<<"&", "a", "p", "o", "s", ";">>)
      [] mode = "Standard" /\ ch = CodeOf("\"") -> Str(<<"&", "q", "u", "o", "t", ";">>)
      [] mode = "Standard" /\ ch = CodeOf("<")  -> Str(<<"&", "l", "t", ";">>)
      [] mode = "Standard" /\ ch = CodeOf(">")  -> Str(<<"&", "g", "t", ";">>)
      [] mode = "Hex" /\ ch \in Reserved        -> HexEntity(ch)
      [] OTHER -> IF is_ascii_control(ch) THEN HexEntity(ch) ELSE <<ch>>

\* the guard of the slow path: a reserved or an ASCII control char occurs
needs_escape(input) ==
    \E i \in 1..Len(input) : input[i] \in Reserved \/ is_ascii_control(input[i])

process_entities(input, mode) ==
    IF needs_escape(input)
    THEN Concat([i \in 1..Len(input) |-> entity(mode, input[i])])
    ELSE input

EntityModes == {"Standard", "Hex"}

\* the characters the escaping is exercised on: the five reserved ones, four
\* ASCII controls (NUL, TAB, US, DEL), a space, a letter and a non-ASCII letter
EscAlphabet == Reserved \cup {0, 9, 31, 127, 32, 120, 233}

----------------------------------------------------------------------------
(* The Document arena *)

Element(name, children) ==
    [kind |-> "Element", name |-> name, children |-> children, text |-> <<>>]

Leaf(kind, text) ==
    [kind |-> kind, name |-> <<>>, children |-> <<>>, text |-> text]

Attr(k, v) == [k |-> k, v |-> v]

\* Option<String>
None == <<>>
Some(x) == <<x>>

Declaration(version, encoding, standalone) ==
    [version |-> version, encoding |-> encoding, standalone |-> standalone]

Document(decl, before, root_key, after, nodes, attrs) ==
    [decl |-> decl, before |-> before, root_key |-> root_key, after |-> after,
     nodes |-> nodes, attrs |-> attrs]

\* the arena with no attribute entry at all
NoAttrs == [k \in {} |-> <<>>]

\* a > b > "x"
DocNested ==
    Document(None, <<>>, 1, <<>>,
        1 :> Element(Str(<<"a">>), <<2>>)
     @@ 2 :> Element(Str(<<"b">>), <<3>>)
     @@ 3 :> Leaf("Text", Str(<<"x">>)),
        NoAttrs)

\* <row a="1" bb="22">x</row>
DocRow ==
    Document(None, <<>>, 1, <<>>,
        1 :> Element(Str(<<"r", "o", "w">>), <<2>>)
     @@ 2 :> Leaf("Text", Str(<<"x">>)),
        1 :> <<Attr(Str(<<"a">>), Str(<<"1">>)),
               Attr(Str(<<"b", "b">>), Str(<<"2", "2">>))>>)

\* a declaration, a leading doctype, a root with every kind of child, nested
\* elements with attributes, an element with an empty attribute map, and a
\* trailing comment
DocFull ==
    Document(
        Some(Declaration(Some(Str(<<"1", ".", "0">>)), Some(Str(<<"u">>)), None)),
        <<10>>, 1, <<11>>,
        1  :> Element(Str(<<"d">>), <<2, 3, 4, 5, 6>>)
     @@ 2  :> Leaf("Text", Str(<<" ", "h", "i", " ">>))
     @@ 3  :> Element(Str(<<"e">>), <<>>)
     @@ 4  :> Element(Str(<<"n">>), <<>>)
     @@ 5  :> Leaf("CData", Str(<<"c", "&">>))
     @@ 6  :> Element(Str(<<"p">>), <<7>>)
     @@ 7  :> Element(Str(<<"q">>), <<>>)
     @@ 10 :> Leaf("DocumentType", Str(<<" ", "d">>))
     @@ 11 :> Leaf("Comment", Str(<<"<", "e">>)),
        3 :> <<Attr(Str(<<"k">>), <<CodeOf("<"), 233>>)>>
     @@ 4 :> <<>>
     @@ 6 :> <<Attr(Str(<<"i">>), Str(<<"1">>))>>
     @@ 7 :> <<Attr(Str(<<"a">>), Str(<<"&">>)),
               Attr(Str(<<"b">>), Str(<<"\t">>)),
               Attr(Str(<<"<">>), Str(<<"2">>))>>)

\* <?xml standalone="no" ?><a />
DocDeclStandalone ==
    Document(Some(Declaration(None, None, Some(Str(<<"n", "o">>)))), <<>>, 1, <<>>,
        1 :> Element(Str(<<"a">>), <<>>),
        NoAttrs)

\* <?xml ?><a />
DocDeclNone ==
    Document(Some(Declaration(None, None, None)), <<>>, 1, <<>>,
        1 :> Element(Str(<<"a">>), <<>>),
        NoAttrs)

\* the root key maps to a Text node; a declaration and a leading comment
DocRootText ==
    Document(Some(Declaration(Some(Str(<<"1">>)), None, None)), <<2>>, 1, <<3>>,
        1 :> Leaf("Text", Str(<<"t">>))
     @@ 2 :> Leaf("Comment", Str(<<"c">>))
     @@ 3 :> Leaf("Comment", Str(<<"d">>)),
        NoAttrs)

\* the root key has no entry in the arena
DocRootMissing ==
    Document(None, <<2>>, 9, <<>>,
        2 :> Leaf("Comment", Str(<<"c">>)),
        NoAttrs)

\* a child list names key 9, which has no entry, between two live children
DocDanglingChild ==
    Document(None, <<>>, 1, <<4>>,
        1 :> Element(Str(<<"a">>), <<2, 9, 3>>)
     @@ 2 :> Leaf("Text", Str(<<"x">>))
     @@ 3 :> Element(Str(<<"b">>), <<>>)
     @@ 4 :> Leaf("Comment", Str(<<"c">>)),
        NoAttrs)

\* the leading list names key 9, which has no entry
DocDanglingBefore ==
    Document(None, <<2, 9>>, 1, <<>>,
        1 :> Element(Str(<<"a">>), <<>>)
     @@ 2 :> Leaf("Comment", Str(<<"c">>)),
        NoAttrs)

\* the trailing list names key 9, which has no entry
DocDanglingAfter ==
    Document(None, <<>>, 1, <<9, 2>>,
        1 :> Element(Str(<<"a">>), <<>>)
     @@ 2 :> Leaf("Comment", Str(<<"c">>)),
        NoAttrs)

Docs ==
    {DocNested, DocRow, DocFull, DocDeclStandalone, DocDeclNone, DocRootText,
     DocRootMissing, DocDanglingChild, DocDanglingBefore,
     DocDanglingAfter}

\* <?xml ?><!--c--><a k="v" l="w">t</a><!--d--> with Text content t
TextDoc(t) ==
    Document(Some(Declaration(None, None, None)), <<2>>, 1, <<4>>,
        1 :> Element(Str(<<"a">>), <<3>>)
     @@ 2 :> Leaf("Comment", Str(<<"c">>))
     @@ 3 :> Leaf("Text", t)
     @@ 4 :> Leaf("Comment", Str(<<"d">>)),
        1 :> <<Attr(Str(<<"k">>), Str(<<"v">>)), Attr(Str(<<"l">>), Str(<<"w">>))>>)

\* the characters of the Text contents: space, tab, line feed, a letter and a
\* reserved character
TextAlphabet == {32, 9, 10, 104, 38}

\* "  hello  ", the example of the text-trimming property
TextHello == Str(<<" ", " ", "h", "e", "l", "l", "o", " ", " ">>)

TextDocs == {TextDoc(t) : t \in Strings(TextAlphabet, MaxTextLen) \cup {TextHello}}

\* the thresholds of attribute wrapping that are exercised
LineLengths == {0, 5, 19, 100}

Configs ==
    [is_pretty : BOOLEAN, indent : 0..MaxIndent,
     max_line_length : LineLengths, entity_mode : EntityModes]

\* the Configs of the text-rendering documents
TextConfigs ==
    [is_pretty : BOOLEAN, indent : {MaxIndent},
     max_line_length : {0, 100}, entity_mode : EntityModes]

----------------------------------------------------------------------------
(* Call frames and writes *)

\* State: the context threaded through print (doc is the variable doc)
Frame(fn, pc, key, indent) ==
    [fn |-> fn, pc |-> pc, key |-> key, indent |-> indent, idx |-> 1]

\* State::new: indentation 0 at the root key
StateNew(document) == Frame("Document", "decl", document.root_key, 0)

\* a variant that advances the indentation in compact mode too
with_indent_always(indent, cfg) == indent + cfg.indent

\* State::with_indent: the indentation of a context one level deeper
with_indent(indent, cfg) ==
    IF ~cfg.is_pretty THEN indent ELSE indent + cfg.indent

top == Head(stack)
rest == Tail(stack)

\* the running frame moved to pc
Goto(pc) == <<[top EXCEPT !.pc = pc]>> \o rest

\* the running frame moved to pc with its loop at the next item
GotoNext(pc) == <<[top EXCEPT !.pc = pc, !.idx = @ + 1]>> \o rest

\* the running frame moved to pc with its loop at the first item
GotoFirst(pc) == <<[top EXCEPT !.pc = pc, !.idx = 1]>> \o rest

\* a call: the callee's frame above the caller waiting at retpc
Call(frame, retpc) == <<frame>> \o Goto(retpc)

\* the call stack and the last returned value after a step; the render ends
\* with that value when the outermost frame has returned
Settle(new_stack, new_ret) ==
    /\ stack' = new_stack
    /\ ret' = new_ret
    /\ status' = IF new_stack = <<>> THEN new_ret ELSE "running"

\* a step that writes nothing
Step(new_stack, new_ret) ==
    /\ Settle(new_stack, new_ret)
    /\ UNCHANGED <<sink, log>>

\* return r from the running frame
Return(r) == Step(rest, r)

\* Option::unwrap on None: the render unwinds out of every frame
Panic ==
    /\ stack' = <<>>
    /\ ret' = "none"
    /\ status' = "panic"
    /\ UNCHANGED <<sink, log>>

\* write!(f, ...)?: the sink takes all of text and the frame goes on, or it
\* takes only the first n < Len(text) code points and the frame returns Err
Emit(part, text, ok_stack, ok_ret) ==
    \E n \in (IF fallible THEN 0 ELSE Len(text))..Len(text) :
        /\ sink' = sink \o SubSeq(text, 1, n)
        /\ log' = Append(log, [key |-> top.key, part |-> part, indent |-> top.indent,
                               text |-> SubSeq(text, 1, n), ok |-> (n = Len(text))])
        /\ IF n = Len(text) THEN Settle(ok_stack, ok_ret) ELSE Settle(rest, "Err")

\* the running frame is in function fn at pc
At(fn, pc) ==
    /\ status = "running"
    /\ stack # <<>>
    /\ top.fn = fn
    /\ top.pc = pc

\* expr?: an Err of the callee is returned at once, Ok resumes at pc
Try(pc) ==
    /\ ret # "none"
    /\ IF ret = "Err" THEN Return("Err") ELSE Step(pc, "none")

----------------------------------------------------------------------------
(* impl Print for Declaration *)

Quoted(name, value) == name \o Str(<<"=", "\"">>) \o value \o Str(<<"\"", " ">>)

DeclarationOpen ==
    /\ At("Declaration", "open")
    /\ Emit("decl", Str(<<"<", "?", "x", "m", "l", " ">>), Goto("version"), "none")
    /\ UNCHANGED <<doc, config, fallible, esc_vars>>

DeclarationVersion ==
    /\ At("Declaration", "version")
    /\ LET decl == doc.decl[1] IN
        IF decl.version # None
        THEN Emit("decl_field",
                  Quoted(Str(<<"v", "e", "r", "s", "i", "o", "n">>), decl.version[1]),
                  Goto("encoding"), "none")
        ELSE Step(Goto("encoding"), "none")
    /\ UNCHANGED <<doc, config, fallible, esc_vars>>

DeclarationEncoding ==
    /\ At("Declaration", "encoding")
    /\ LET decl == doc.decl[1] IN
        IF decl.encoding # None
        THEN Emit("decl_field",
                  Quoted(Str(<<"e", "n", "c", "o", "d", "i", "n", "g">>), decl.encoding[1]),
                  Goto("standalone"), "none")
        ELSE Step(Goto("standalone"), "none")
    /\ UNCHANGED <<doc, config, fallible, esc_vars>>

DeclarationStandalone ==
    /\ At("Declaration", "standalone")
    /\ LET decl == doc.decl[1] IN
        IF decl.standalone # None
        THEN Emit("decl_field",
                  Quoted(Str(<<"s", "t", "a", "n", "d", "a", "l", "o", "n", "e">>),
                         decl.standalone[1]),
                  Goto("close"), "none")
        ELSE Step(Goto("close"), "none")
    /\ UNCHANGED <<doc, config, fallible, esc_vars>>

DeclarationClose ==
    /\ At("Declaration", "close")
    /\ Emit("decl_close", Str(<<"?", ">">>), Goto("newline"), "none")
    /\ UNCHANGED <<doc, config, fallible, esc_vars>>

DeclarationNewline ==
    /\ At("Declaration", "newline")
    /\ IF config.is_pretty
       THEN Emit("decl_nl", Newline, rest, "Ok")
       ELSE Return("Ok")
    /\ UNCHANGED <<doc, config, fallible, esc_vars>>

----------------------------------------------------------------------------
(* impl Print for Document *)

DocumentDecl ==
    /\ At("Document", "decl")
    /\ IF doc.decl # None
       THEN Step(Call(Frame("Declaration", "open", top.key, top.indent), "decl_ret"), "none")
       ELSE Step(GotoFirst("before"), "none")
    /\ UNCHANGED <<doc, config, fallible, esc_vars>>

DocumentDeclRet ==
    /\ At("Document", "decl_ret")
    /\ Try(GotoFirst("before"))
    /\ UNCHANGED <<doc, config, fallible, esc_vars>>

DocumentBefore ==
    /\ At("Document", "before")
    /\ IF top.idx > Len(doc.before)
       THEN Step(Goto("root"), "none")
       ELSE LET node == doc.before[top.idx] IN
            IF node \notin DOMAIN doc.nodes
            THEN Panic
            ELSE Step(Call(Frame("Node", "dispatch", node, top.indent), "before_ret"), "none")
    /\ UNCHANGED <<doc, config, fallible, esc_vars>>

DocumentBeforeRet ==
    /\ At("Document", "before_ret")
    /\ Try(GotoNext("before"))
    /\ UNCHANGED <<doc, config, fallible, esc_vars>>

DocumentRoot ==
    /\ At("Document", "root")
    /\ IF doc.root_key \notin DOMAIN doc.nodes
       THEN Panic
       ELSE IF doc.nodes[doc.root_key].kind # "Element"
       THEN Panic
       ELSE Step(Call(Frame("Element", "open", doc.root_key, top.indent), "root_ret"), "none")
    /\ UNCHANGED <<doc, config, fallible, esc_vars>>

DocumentRootRet ==
    /\ At("Document", "root_ret")
    /\ Try(GotoFirst("after"))
    /\ UNCHANGED <<doc, config, fallible, esc_vars>>

DocumentAfter ==
    /\ At("Document", "after")
    /\ IF top.idx > Len(doc.after)
       THEN Return("Ok")
       ELSE LET node == doc.after[top.idx] IN
            IF node \notin DOMAIN doc.nodes
            THEN Panic
            ELSE Step(Call(Frame("Node", "dispatch", node, top.indent), "after_ret"), "none")
    /\ UNCHANGED <<doc, config, fallible, esc_vars>>

DocumentAfterRet ==
    /\ At("Document", "after_ret")
    /\ Try(GotoNext("after"))
    /\ UNCHANGED <<doc, config, fallible, esc_vars>>

----------------------------------------------------------------------------
(* impl Print for NodeValue *)

\* the Text arm: process_entities(t, mode).trim()
text_literal(t, mode) == trim(process_entities(t, mode))

\* the match on the leaf kinds
leaf_literal(node, mode) ==
    CASE node.kind = "Text"  -> text_literal(node.text, mode)
      [] node.kind = "CData" ->
            Str(<<"<", "!", "[", "C", "D", "A", "T", "A", "[">>) \o node.text
                \o Str(<<"]", "]", ">">>)
      [] node.kind = "DocumentType" ->
            Str(<<"<", "!", "D", "O", "C", "T", "Y", "P", "E">>) \o node.text
                \o Str(<<">">>)
      [] node.kind = "Comment" ->
            Str(<<"<", "!", "-", "-">>) \o node.text \o Str(<<"-", "-", ">">>)

\* an Element is handed to ElementValue::print, whose result is returned as is
NodeDispatch ==
    /\ At("Node", "dispatch")
    /\ IF doc.nodes[top.key].kind = "Element"
       THEN Step(<<Frame("Element", "open", top.key, top.indent)>> \o rest, "none")
       ELSE Step(Goto("indent"), "none")
    /\ UNCHANGED <<doc, config, fallible, esc_vars>>

NodeIndent ==
    /\ At("Node", "indent")
    /\ IF config.is_pretty
       THEN Emit("leaf_indent", Spaces(top.indent), Goto("body"), "none")
       ELSE Step(Goto("body"), "none")
    /\ UNCHANGED <<doc, config, fallible, esc_vars>>

NodeBody ==
    /\ At("Node", "body")
    /\ Emit("leaf", leaf_literal(doc.nodes[top.key], config.entity_mode),
            Goto("newline"), "none")
    /\ UNCHANGED <<doc, config, fallible, esc_vars>>

NodeNewline ==
    /\ At("Node", "newline")
    /\ IF config.is_pretty
       THEN Emit("leaf_nl", Newline, rest, "Ok")
       ELSE Return("Ok")
    /\ UNCHANGED <<doc, config, fallible, esc_vars>>

----------------------------------------------------------------------------
(* fmt_attrs *)

\* context.doc.attrs.get(key), None as the empty map: both take the same arm
attrs_of(key) == IF key \in DOMAIN doc.attrs THEN doc.attrs[key] ELSE <<>>

RECURSIVE attrs_len(_)
\* the fold: the sum over the attributes of k.len() + v.len() + 4
attrs_len(attrs) ==
    IF attrs = <<>> THEN 0
    ELSE StrLen(Head(attrs).k) + StrLen(Head(attrs).v) + 4 + attrs_len(Tail(attrs))

line_length(tag, attrs) == StrLen(tag) + 2 + attrs_len(attrs)

\* a variant that wraps at the threshold itself
is_newlines_at_threshold(tag, attrs, cfg) ==
    cfg.is_pretty /\ line_length(tag, attrs) >= cfg.max_line_length

is_newlines(tag, attrs, cfg) ==
    cfg.is_pretty /\ line_length(tag, attrs) > cfg.max_line_length

\* a variant that keeps the indentation of the element itself
attr_indent_of_element(indent, cfg) == indent

\* the indentation of an attribute on its own line: that of the shadowed
\* context, context.with_indent(config)
attr_indent(indent, cfg) == with_indent(indent, cfg)

\* k="escaped v"
attr_literal(attr, mode) ==
    attr.k \o Str(<<"=", "\"">>) \o process_entities(attr.v, mode) \o Str(<<"\"">>)

\* what precedes an attribute: a line break, a space, or nothing (the first)
FmtAttrsSeparator ==
    /\ At("fmt_attrs", "sep")
    /\ LET attrs == attrs_of(top.key)
           tag   == doc.nodes[top.key].name
       IN  IF top.idx > Len(attrs)
           THEN Return("Ok")
           ELSE IF is_newlines(tag, attrs, config)
           THEN Emit("attr_nl", Newline, Goto("pad"), "none")
           ELSE IF top.idx > 1
           THEN Emit("attr_sep", Str(<<" ">>), Goto("attr"), "none")
           ELSE Step(Goto("attr"), "none")
    /\ UNCHANGED <<doc, config, fallible, esc_vars>>

FmtAttrsPad ==
    /\ At("fmt_attrs", "pad")
    /\ Emit("attr_pad", Spaces(attr_indent(top.indent, config)), Goto("attr"), "none")
    /\ UNCHANGED <<doc, config, fallible, esc_vars>>

FmtAttrsPair ==
    /\ At("fmt_attrs", "attr")
    /\ LET attrs == attrs_of(top.key) IN
        IF top.idx < Len(attrs)
        THEN Emit("attr", attr_literal(attrs[top.idx], config.entity_mode),
                  GotoNext("sep"), "none")
        ELSE Emit("attr", attr_literal(attrs[top.idx], config.entity_mode), rest, "Ok")
    /\ UNCHANGED <<doc, config, fallible, esc_vars>>

----------------------------------------------------------------------------
(* impl Print for ElementValue *)

\* a variant that walks the child list from its end
child_at_reversed(children, idx) == children[Len(children) + 1 - idx]

\* self.children.iter(): the idx-th child in the order of the child list
child_at(children, idx) == children[idx]

\* the first write of the tag: the indentation, '<', the name, and what the
\* arm taken puts after the name
ElementOpen ==
    /\ At("Element", "open")
    /\ LET element == doc.nodes[top.key]
           head    == Spaces(top.indent) \o Str(<<"<">>) \o element.name
       IN  IF attrs_of(top.key) # <<>>
           THEN Emit("open", head \o Str(<<" ">>), Goto("attrs"), "none")
           ELSE IF element.children = <<>>
           THEN Emit("open", head \o Str(<<" ", "/", ">">>), Goto("open_nl"), "none")
           ELSE Emit("open", head \o Str(<<">">>), Goto("open_nl"), "none")
    /\ UNCHANGED <<doc, config, fallible, esc_vars>>

ElementAttrs ==
    /\ At("Element", "attrs")
    /\ Step(Call(Frame("fmt_attrs", "sep", top.key, top.indent), "attrs_ret"), "none")
    /\ UNCHANGED <<doc, config, fallible, esc_vars>>

ElementAttrsRet ==
    /\ At("Element", "attrs_ret")
    /\ Try(Goto("open_end"))
    /\ UNCHANGED <<doc, config, fallible, esc_vars>>

ElementOpenEnd ==
    /\ At("Element", "open_end")
    /\ IF doc.nodes[top.key].children = <<>>
       THEN Emit("open_end", Str(<<" ", "/", ">">>), Goto("open_nl"), "none")
       ELSE Emit("open_end", Str(<<">">>), Goto("open_nl"), "none")
    /\ UNCHANGED <<doc, config, fallible, esc_vars>>

\* the line break after the open tag; a childless element returns here
ElementOpenNewline ==
    /\ At("Element", "open_nl")
    /\ LET childless == doc.nodes[top.key].children = <<>>
           on        == IF childless THEN rest ELSE GotoFirst("children")
           result    == IF childless THEN "Ok" ELSE "none"
       IN  IF config.is_pretty
           THEN Emit("open_nl", Newline, on, result)
           ELSE Step(on, result)
    /\ UNCHANGED <<doc, config, fallible, esc_vars>>

ElementChildren ==
    /\ At("Element", "children")
    /\ LET children == doc.nodes[top.key].children IN
        IF top.idx > Len(children)
        THEN Step(Goto("close"), "none")
        ELSE LET child == child_at(children, top.idx) IN
             IF child \notin DOMAIN doc.nodes
             THEN Panic
             ELSE Step(Call(Frame("Node", "dispatch", child, with_indent(top.indent, config)),
                            "child_ret"), "none")
    /\ UNCHANGED <<doc, config, fallible, esc_vars>>

\* a variant that drops the result of the child and goes on with the loop
ElementChildRetIgnored ==
    /\ At("Element", "child_ret")
    /\ ret # "none"
    /\ Step(GotoNext("children"), "none")
    /\ UNCHANGED <<doc, config, fallible, esc_vars>>

ElementChildRet ==
    /\ At("Element", "child_ret")
    /\ Try(GotoNext("children"))
    /\ UNCHANGED <<doc, config, fallible, esc_vars>>

ElementClose ==
    /\ At("Element", "close")
    /\ Emit("close",
            Spaces(top.indent) \o Str(<<"<", "/">>) \o doc.nodes[top.key].name \o Str(<<">">>),
            Goto("close_nl"), "none")
    /\ UNCHANGED <<doc, config, fallible, esc_vars>>

ElementCloseNewline ==
    /\ At("Element", "close_nl")
    /\ IF config.is_pretty
       THEN Emit("close_nl", Newline, rest, "Ok")
       ELSE Return("Ok")
    /\ UNCHANGED <<doc, config, fallible, esc_vars>>

----------------------------------------------------------------------------
(* The render of a Document *)

EscIdle ==
    /\ esc_input = <<>>
    /\ esc_mode = "Standard"
    /\ esc_output = <<>>
    /\ esc_done = FALSE

Render(documents, configs, can_fail) ==
    /\ doc \in documents
    /\ config \in configs
    /\ stack = <<StateNew(doc)>>
    /\ ret = "none"
    /\ status = "running"
    /\ sink = <<>>
    /\ log = <<>>
    /\ fallible = can_fail
    /\ EscIdle

\* Document::fmt: print(&mut FmtWriter(f), &config, &State::new(self))
Init == Render(Docs, Configs, TRUE)

Next ==
    \/ DeclarationOpen
    \/ DeclarationVersion
    \/ DeclarationEncoding
    \/ DeclarationStandalone
    \/ DeclarationClose
    \/ DeclarationNewline
    \/ DocumentDecl
    \/ DocumentDeclRet
    \/ DocumentBefore
    \/ DocumentBeforeRet
    \/ DocumentRoot
    \/ DocumentRootRet
    \/ DocumentAfter
    \/ DocumentAfterRet
    \/ NodeDispatch
    \/ NodeIndent
    \/ NodeBody
    \/ NodeNewline
    \/ FmtAttrsSeparator
    \/ FmtAttrsPad
    \/ FmtAttrsPair
    \/ ElementOpen
    \/ ElementAttrs
    \/ ElementAttrsRet
    \/ ElementOpenEnd
    \/ ElementOpenNewline
    \/ ElementChildren
    \/ ElementChildRet
    \/ ElementClose
    \/ ElementCloseNewline

Spec == Init /\ [][Next]_vars

\* the renders of the documents with one Text node of every bounded content,
\* to a sink that takes every write
InitText == Render(TextDocs, TextConfigs, FALSE)

SpecText == InitText /\ [][Next]_vars

----------------------------------------------------------------------------
(* process_entities applied on its own *)

InitEsc ==
    /\ esc_input \in Strings(EscAlphabet, MaxLen)
    /\ esc_mode \in EntityModes
    /\ esc_output = <<>>
    /\ esc_done = FALSE
    /\ doc = DocNested
    /\ config = [is_pretty |-> FALSE, indent |-> 0, max_line_length |-> 0,
                 entity_mode |-> "Standard"]
    /\ stack = <<>>
    /\ ret = "none"
    /\ status = "idle"
    /\ sink = <<>>
    /\ log = <<>>
    /\ fallible = FALSE

ProcessEntities ==
    /\ ~esc_done
    /\ esc_output' = process_entities(esc_input, esc_mode)
    /\ esc_done' = TRUE
    /\ UNCHANGED <<esc_input, esc_mode, printer_vars>>

NextEsc == ProcessEntities

SpecEsc == InitEsc /\ [][NextEsc]_vars

----------------------------------------------------------------------------
(* Properties *)

\* s is an initial part of t
IsPrefix(s, t) == Len(s) <= Len(t) /\ SubSeq(t, 1, Len(s)) = s

\* the characters of s
Chars(s) == {s[i] : i \in 1..Len(s)}

\* the render ended and no write to the sink failed
EndedWithoutSinkFailure == status \in {"Ok", "panic"}

\* the keys the document refers to: the lists, the root, every child list
Referenced(d) ==
    {d.root_key} \cup Chars(d.before) \cup Chars(d.after)
        \cup UNION {Chars(d.nodes[k].children) : k \in DOMAIN d.nodes}

Dangling(d) == \E k \in Referenced(d) : k \notin DOMAIN d.nodes

RootIsNoElement(d) ==
    d.root_key \in DOMAIN d.nodes /\ d.nodes[d.root_key].kind # "Element"

\* every reference resolves and the root is an Element
Valid(d) == ~Dangling(d) /\ ~RootIsNoElement(d)

\* C1: the render of a Document whose root key maps to a node that is no
\* Element ends with InvalidRoot reported to the caller and with nothing
\* written to the sink.
C1_InvalidRootBeforeAnyOutput ==
    (EndedWithoutSinkFailure /\ RootIsNoElement(doc))
        => (status = "InvalidRoot" /\ sink = <<>>)

\* C2: a render that reaches a key with no entry in the node storage returns
\* a BrokenReference error value to its caller.
C2_BrokenReferenceReturned ==
    (EndedWithoutSinkFailure /\ Dangling(doc)) => status = "BrokenReference"

\* C3: a failed write is the last write the render issues, at whatever depth
\* it happens; the failure travels up to the caller as Err; and the sink
\* keeps all that was written up to it.
C3_FailedWriteIsLast ==
    /\ \A i \in 1..Len(log) :
          ~log[i].ok =>
              /\ i = Len(log)
              /\ ret = "Err"
              /\ status = (IF stack = <<>> THEN "Err" ELSE "running")
    /\ status = "Err" => (log # <<>> /\ ~log[Len(log)].ok)
    /\ sink = Concat([i \in 1..Len(log) |-> log[i].text])

\* a write failed inside fmt_attrs of the element q, three calls deep, after
\* part of the document was written, and the render returned the failure
C3_Witness ==
    /\ doc = DocFull
    /\ status = "Err"
    /\ log # <<>>
    /\ ~log[Len(log)].ok
    /\ log[Len(log)].part = "attr"
    /\ log[Len(log)].key = 7
    /\ Len(sink) > 20

NamedEntities ==
    {Str(<<"&", "a", "m", "p", ";">>), Str(<<"&", "a", "p", "o", "s", ";">>),
     Str(<<"&", "q", "u", "o", "t", ";">>), Str(<<"&", "l", "t", ";">>),
     Str(<<"&", "g", "t", ";">>)}

UpperHexDigits == (48..57) \cup (65..70)

\* position i of s starts a named entity or a numeric entity &#xHHHH;
StartsEntity(s, i) ==
    \/ \E e \in NamedEntities :
          i + Len(e) - 1 <= Len(s) /\ SubSeq(s, i, i + Len(e) - 1) = e
    \/ /\ i + 7 <= Len(s)
       /\ SubSeq(s, i, i + 2) = Str(<<"&", "#", "x">>)
       /\ \A j \in (i + 3)..(i + 6) : s[j] \in UpperHexDigits
       /\ s[i + 7] = CodeOf(";")

\* C4: in Standard mode the output of process_entities has no '<', '>',
\* apostrophe, double quote or ASCII control character, and no '&' in literal
\* form: every '&' of the output opens an entity reference.
C4_StandardOutputHasNoLiteralSpecial ==
    (esc_done /\ esc_mode = "Standard") =>
        \A i \in 1..Len(esc_output) :
            /\ esc_output[i] \notin Reserved \ {CodeOf("&")}
            /\ ~(esc_output[i] \in 0..31 \/ esc_output[i] = 127)
            /\ esc_output[i] = CodeOf("&") => StartsEntity(esc_output, i)

\* "&>" was escaped in Standard mode
C4_Witness ==
    /\ esc_done
    /\ esc_mode = "Standard"
    /\ esc_input = Str(<<"&", ">">>)

\* the digit of value d in 0..15
ClaimHexDigit(d) == Str(<<"0", "1", "2", "3", "4", "5", "6", "7", "8", "9">>
                        \o <<"A", "B", "C", "D", "E", "F">>)[d + 1]

\* &#xHHHH; with HHHH the code point in four upper-case hexadecimal digits
ClaimNumeric(ch) ==
    Str(<<"&", "#", "x">>)
        \o <<ClaimHexDigit((ch \div 4096) % 16), ClaimHexDigit((ch \div 256) % 16),
             ClaimHexDigit((ch \div 16) % 16), ClaimHexDigit(ch % 16)>>
        \o Str(<<";">>)

ClaimNamed(ch) ==
    CASE ch = CodeOf("&")  -> Str(<<"&", "a", "m", "p", ";">>)
      [] ch = CodeOf("'")  -> Str(<<"&", "a", "p", "o", "s", ";">>)
      [] ch = CodeOf("\"") -> Str(<<"&", "q", "u", "o", "t", ";">>)
      [] ch = CodeOf("<")  -> Str(<<"&", "l", "t", ";">>)
      [] ch = CodeOf(">")  -> Str(<<"&", "g", "t", ";">>)

\* the image of one character
ClaimImage(mode, ch) ==
    IF ch \in {38, 39, 34, 60, 62}
    THEN (IF mode = "Standard" THEN ClaimNamed(ch) ELSE ClaimNumeric(ch))
    ELSE IF ch \in 0..31 \/ ch = 127 THEN ClaimNumeric(ch)
    ELSE <<ch>>

\* C5: in both modes the output of process_entities is the concatenation, in
\* order, of the images of the characters of the input; an input with no
\* reserved and no control character comes back equal to itself.
C5_OutputIsConcatenationOfImages ==
    esc_done =>
        /\ esc_output = Concat([i \in 1..Len(esc_input) |->
                                    ClaimImage(esc_mode, esc_input[i])])
        /\ (\A i \in 1..Len(esc_input) :
                esc_input[i] \notin {38, 39, 34, 60, 62} \cup (0..31) \cup {127})
              => esc_output = esc_input

\* '<' followed by the control character U+001F was escaped in Hex mode
C5_Witness ==
    /\ esc_done
    /\ esc_mode = "Hex"
    /\ esc_input = <<60, 31>>
    /\ Len(esc_output) = 16

\* C6: what is written for a Text node is its content with the surrounding
\* whitespace removed and the remainder entity-escaped.
C6_TextTrimmedThenEscaped ==
    \A i \in 1..Len(log) :
        (log[i].part = "leaf" /\ log[i].ok /\ doc.nodes[log[i].key].kind = "Text")
            => log[i].text = process_entities(trim(doc.nodes[log[i].key].text),
                                              config.entity_mode)

\* the example of the property: "  hello  " is written as hello
C6_HelloTrimmed ==
    \A i \in 1..Len(log) :
        (log[i].part = "leaf" /\ log[i].ok /\ doc.nodes[log[i].key].kind = "Text"
            /\ doc.nodes[log[i].key].text = TextHello)
            => log[i].text = Str(<<"h", "e", "l", "l", "o">>)

----------------------------------------------------------------------------

RECURSIVE ClaimAttrsEstimate(_)
\* the sum over the attributes of len(key) + len(raw value) + 4, lengths in
\* bytes as str::len counts them
ClaimAttrsEstimate(attrs) ==
    IF attrs = <<>> THEN 0
    ELSE ClaimAttrsEstimate(SubSeq(attrs, 1, Len(attrs) - 1))
            + StrLen(attrs[Len(attrs)].k) + StrLen(attrs[Len(attrs)].v) + 4

\* E of the element at key
ClaimEstimate(key) ==
    StrLen(doc.nodes[key].name) + 2 + ClaimAttrsEstimate(doc.attrs[key])

\* the i-th write is an attribute that was put on a line of its own
OnOwnLine(i) ==
    /\ i > 2
    /\ log[i - 1].part = "attr_pad"
    /\ log[i - 2].part = "attr_nl"

\* the i-th write is an attribute that follows what precedes it on its line
Inline(i) ==
    /\ i > 1
    /\ log[i - 1].part \in {"open", "attr_sep"}
    /\ log[i - 1].part = "attr_sep" => log[i - 1].text = Str(<<" ">>)

RowInline == Str(<<"<", "r", "o", "w", " ", "a", "=", "\"", "1", "\"", " ",
                   "b", "b", "=", "\"", "2", "2", "\"", ">">>)

\* C7: the attributes of an element are written one per line if and only if
\* pretty mode is on and E > max_line_length, E = len(name) + 2 + the sum of
\* len(key) + len(value) + 4; otherwise all on one line.  Element row with
\* a="1", bb="22" has E = 19: it wraps at 5 and is <row a="1" bb="22"> at 100.
C7_WrapIffEstimateExceeds ==
    /\ \A i \in 1..Len(log) :
          log[i].part = "attr" =>
              IF config.is_pretty /\ ClaimEstimate(log[i].key) > config.max_line_length
              THEN OnOwnLine(i)
              ELSE Inline(i)
    /\ (doc = DocRow /\ status = "Ok") =>
          /\ ClaimEstimate(1) = 19
          /\ (config.is_pretty /\ config.max_line_length = 5)
                => IsPrefix(Str(<<"<", "r", "o", "w", " ", "\n">>), sink)
          /\ (config.max_line_length = 100 \/ ~config.is_pretty)
                => IsPrefix(RowInline, sink)

\* row was rendered in pretty mode with max_line_length equal to its E = 19,
\* and its attributes are on one line
C7_Witness ==
    /\ doc = DocRow
    /\ status = "Ok"
    /\ config.is_pretty
    /\ config.max_line_length = 19
    /\ IsPrefix(RowInline, sink)

\* C8: with pretty = false no write is a line break or an indentation, the
\* tags carry no padding at any depth, the output has no line feed, and
\* a > b > text x is written as <a><b>x</b></a>.
C8_CompactHasNoLayout ==
    ~config.is_pretty =>
        /\ \A i \in 1..Len(log) :
              /\ log[i].part \notin {"decl_nl", "leaf_indent", "leaf_nl", "attr_nl",
                                     "attr_pad", "open_nl", "close_nl"}
              /\ log[i].indent = 0
              /\ (log[i].part \in {"open", "close"} /\ log[i].text # <<>>)
                    => log[i].text[1] = CodeOf("<")
        /\ 10 \notin Chars(sink)
        /\ (doc = DocNested /\ status = "Ok") =>
              sink = Str(<<"<", "a", ">", "<", "b", ">", "x", "<", "/", "b", ">",
                           "<", "/", "a", ">">>)

\* the nested tree was rendered in compact mode with a non-zero indent
C8_Witness ==
    /\ doc = DocNested
    /\ ~config.is_pretty
    /\ config.indent = MaxIndent
    /\ config.max_line_length = 0
    /\ status = "Ok"
    /\ Len(sink) = 15

\* the parts of an open tag with attributes
OpenTagParts == {"open", "attr_nl", "attr_pad", "attr_sep", "attr", "open_end"}

\* the writes of the open tag of the element at key, in order
OpenTagWrites(key) ==
    SelectSeq(log, LAMBDA e : e.key = key /\ e.part \in OpenTagParts)

\* the open tag of the element at key was written to its end, one attribute
\* per line
WrappedOpenTagDone(key) ==
    /\ \E i \in 1..Len(log) : log[i].key = key /\ log[i].part = "attr_nl"
    /\ \E i \in 1..Len(log) : log[i].key = key /\ log[i].part = "open_end" /\ log[i].ok

\* the indentation the element at key was rendered at
IndentOf(key) ==
    (CHOOSE e \in {log[i] : i \in 1..Len(log)} : e.key = key /\ e.part = "open").indent

\* the lines of the attributes: each a line feed, n spaces, key="escaped value"
ClaimAttrLines(key, n) ==
    Concat([j \in 1..Len(doc.attrs[key]) |->
        <<10>> \o Spaces(n) \o doc.attrs[key][j].k \o Str(<<"=", "\"">>)
            \o process_entities(doc.attrs[key][j].v, config.entity_mode)
            \o Str(<<"\"">>)])

ClaimTagEnd(key) ==
    IF doc.nodes[key].children = <<>> THEN Str(<<" ", "/", ">">>) ELSE Str(<<">">>)

\* C9 as stated: in one-attribute-per-line layout the open tag is d spaces,
\* '<' and the name, directly followed by the line of the first attribute,
\* each attribute after a line feed and d + indent spaces, then '>' or ' />'.
C9_NameDirectlyFollowedByAttributeLine ==
    \A key \in DOMAIN doc.attrs :
        WrappedOpenTagDone(key) =>
            Concat([i \in 1..Len(OpenTagWrites(key)) |-> OpenTagWrites(key)[i].text])
                = Spaces(IndentOf(key)) \o Str(<<"<">>) \o doc.nodes[key].name
                    \o ClaimAttrLines(key, IndentOf(key) + config.indent)
                    \o ClaimTagEnd(key)

\* C9 as amended: the same, with one space between the name and the line
\* feed of the first attribute.
C9_NameSpaceThenAttributeLines ==
    \A key \in DOMAIN doc.attrs :
        WrappedOpenTagDone(key) =>
            Concat([i \in 1..Len(OpenTagWrites(key)) |-> OpenTagWrites(key)[i].text])
                = Spaces(IndentOf(key)) \o Str(<<"<">>) \o doc.nodes[key].name
                    \o Str(<<" ">>)
                    \o ClaimAttrLines(key, IndentOf(key) + config.indent)
                    \o ClaimTagEnd(key)

\* the open tag of q, two levels deep with three attributes, one of them with
\* a key that escaping would change, was written one attribute per line
C9_Witness ==
    /\ doc = DocFull
    /\ config.indent = MaxIndent
    /\ WrappedOpenTagDone(7)
    /\ IndentOf(7) = 2 * MaxIndent
    /\ status = "Ok"

RECURSIVE ClaimNodeOrder(_, _), ClaimListOrder(_, _)
\* the tags and leaves of the subtree at key, in document order
ClaimNodeOrder(d, key) ==
    IF d.nodes[key].kind = "Element"
    THEN <<<<key, "open">>>> \o ClaimListOrder(d, d.nodes[key].children)
            \o (IF d.nodes[key].children = <<>> THEN <<>> ELSE <<<<key, "close">>>>)
    ELSE <<<<key, "leaf">>>>

\* the tags and leaves of the subtrees at the keys of a list, in list order
ClaimListOrder(d, keys) ==
    IF keys = <<>> THEN <<>>
    ELSE ClaimNodeOrder(d, Head(keys)) \o ClaimListOrder(d, Tail(keys))

\* the declaration, the leading nodes, the root subtree, the trailing nodes
ClaimDocumentOrder(d) ==
    (IF d.decl # None THEN <<<<0, "decl">>>> ELSE <<>>)
        \o ClaimListOrder(d, d.before)
        \o ClaimNodeOrder(d, d.root_key)
        \o ClaimListOrder(d, d.after)

\* the tags and leaves written so far, in the order of their writes
Written ==
    LET marks == SelectSeq(log, LAMBDA e : e.part \in {"decl", "open", "close", "leaf"})
    IN  [i \in 1..Len(marks) |->
            IF marks[i].part = "decl" THEN <<0, "decl">>
            ELSE <<marks[i].key, marks[i].part>>]

TopLevel(d) == Chars(d.before) \cup {d.root_key} \cup Chars(d.after)

\* C10: for a valid Document the writes follow document order: declaration,
\* leading nodes, root subtree, trailing nodes, each element's open tag before
\* and its close tag after all of its children in child-list order, each node
\* once; leading nodes, root and trailing nodes are at indentation 0.
C10_WritesFollowDocumentOrder ==
    Valid(doc) =>
        /\ IsPrefix(Written, ClaimDocumentOrder(doc))
        /\ status = "Ok" => Written = ClaimDocumentOrder(doc)
        /\ \A i \in 1..Len(log) : log[i].key \in TopLevel(doc) => log[i].indent = 0

\* the document with a declaration, a leading and a trailing node and five
\* children under the root was rendered whole in pretty mode
C10_Witness ==
    /\ doc = DocFull
    /\ status = "Ok"
    /\ config.is_pretty
    /\ config.indent = MaxIndent
    /\ Len(Written) = 12

----------------------------------------------------------------------------
====
